---- MODULE Spec2Model ----
(***************************************************************************)
(* State-machine model of nixspace: the lockfile model and merge engine    *)
(* (src/src/lockfile.rs) and the workspace aggregate                        *)
(* (src/src/workspace.rs, src/src/config.rs).                               *)
(*                                                                         *)
(* Strings (node names, input labels, project labels) are written as        *)
(* sequences of tokens from a prefix-free alphabet, so that equality,       *)
(* concatenation (format!) and the BTreeMap key order are those of the      *)
(* Rust strings: "A_x" is <<"A", "_", "x">>.                                *)
(* Option<T> is written as a sequence: <<>> is None, <<v>> is Some(v).      *)
(***************************************************************************)
EXTENDS Integers, Sequences, FiniteSets, TLC

VARIABLES
    lock,      \* the LockFile an operation sequence works on
    pre,       \* that LockFile before the last operation
    op,        \* the last operation and its arguments
    res,       \* how the last operation returned: "ok", "err", "panic", "overflow"
    clean,     \* TRUE while every operation so far returned successfully
    steps,     \* number of operations applied so far
    metadata,  \* the input of a merge: project label -> FlakeMetadata
    mop,       \* the merge entry point that ran: "init", "merge", "from_metadata"
    out,       \* what it returned: [st, lock] (and the ghost hits of merge)
    ws,        \* the Workspace: config, per-environment lock, local overlay
    dirs,      \* the project directories that exist on disk
    wop,       \* the last Workspace operation, its argument and how it returned
    world,     \* what the external tools answer: probes, listings, outcomes
    calls,     \* the external tool invocations of the last operation, in order
    given,     \* the reference string handed to parse
    policy,    \* the UpdateStrategy applied to it
    rout       \* the last reference operation and what it returned

lockVars == <<lock, pre, op, res, clean, steps>>
mergeVars == <<metadata, mop, out>>
wsVars == <<ws, dirs, wop>>
extVars == <<world, calls>>
refVars == <<given, policy, rout>>
vars == <<lockVars, mergeVars, wsVars, extVars, refVars>>

\* ------------------------------------------------------------------ bounds
MaxSteps == 2
MaxDepth == 6
MaxProjects == 3

\* ----------------------------------------------------------------- strings
None == <<>>
Some(v) == <<v>>

ROOT == <<"root">>
NA == <<"a">>
NB == <<"b">>
NC == <<"c">>
LA == <<"A">>
LB == <<"B">>

\* byte order of the first characters of the tokens ('A' < 'B' < '_' < 'a' ...)
TokRank(t) ==
    CASE t = "A" -> 1
      [] t = "B" -> 2
      [] t = "_" -> 3
      [] t = "a" -> 4
      [] t = "b" -> 5
      [] t = "c" -> 6
      [] t = "dev" -> 7
      [] t = "prod" -> 8
      [] t = "root" -> 9
      [] OTHER -> 10

\* String's Ord: lexicographic, a proper prefix is smaller
RECURSIVE NameLt(_, _)
NameLt(s, t) ==
    IF s = <<>> THEN t # <<>>
    ELSE IF t = <<>> THEN FALSE
    ELSE IF Head(s) = Head(t) THEN NameLt(Tail(s), Tail(t))
    ELSE TokRank(Head(s)) < TokRank(Head(t))

\* iteration order of a BTreeMap<String, _> over the key set S
RECURSIVE SortedKeys(_)
SortedKeys(S) ==
    IF S = {} THEN <<>>
    ELSE LET m == CHOOSE k \in S : \A n \in S \ {k} : NameLt(k, n)
         IN  <<m>> \o SortedKeys(S \ {m})

\* format!("{name}_{input_name}")
FormatName(name, input_name) == name \o <<"_">> \o input_name

\* --------------------------------------------------------------- data model
Direct(n) == [tag |-> "Direct", n |-> n]
Path(p) == [tag |-> "Path", p |-> p]

LockedRef(locked, original, inputs) ==
    [flake |-> None, locked |-> locked, original |-> original, inputs |-> inputs]

LockFile(nodes, root) == [nodes |-> nodes, root |-> root, version |-> 7]

Keys(L) == DOMAIN L.nodes

\* a map without the key k / with k bound to v (BTreeMap::remove / insert)
MapRemove(m, k) == [x \in (DOMAIN m) \ {k} |-> m[x]]
MapInsert(m, k, v) == [x \in (DOMAIN m) \cup {k} |-> IF x = k THEN v ELSE m[x]]

\* ------------------------------------------------------------- InputRef
\* (variant: matches a Path on the element head() returns, its last)
InputRefRenameByHead(ref, orig_name, new_name) ==
    IF ref.tag = "Direct"
    THEN IF ref.n = orig_name THEN Direct(new_name) ELSE ref
    ELSE IF ref.p # <<>> /\ ref.p[Len(ref.p)] = orig_name
         THEN Path(SubSeq(ref.p, 1, Len(ref.p) - 1) \o <<new_name>>)
         ELSE ref

\* InputRef::rename
InputRefRename(ref, orig_name, new_name) ==
    IF ref.tag = "Direct"
    THEN IF ref.n = orig_name THEN Direct(new_name) ELSE ref
    ELSE IF ref.p # <<>> /\ Head(ref.p) = orig_name
         THEN Path(<<new_name>> \o Tail(ref.p))
         ELSE ref

\* ------------------------------------------------- resolve_input / closure
Resolved(n) == [st |-> "ok", n |-> n]
Aborted(how) == [st |-> how, n |-> <<>>]

RECURSIVE ResolveInputD(_, _, _)
RECURSIVE GetInputByPath(_, _, _, _)

\* resolve_input with d nested calls left before the stack is exhausted
ResolveInputD(L, input_path, d) ==
    IF input_path.tag = "Direct" THEN Resolved(input_path.n)
    ELSE IF input_path.p = <<>> THEN Aborted("panic")
    ELSE GetInputByPath(L, Head(input_path.p), Tail(input_path.p), d)

GetInputByPath(L, node_name, path, d) ==
    IF path = <<>> THEN Resolved(node_name)
    ELSE IF node_name \notin Keys(L) THEN Aborted("panic")
    ELSE LET node == L.nodes[node_name]
             h == Head(path)
         IN  IF node.inputs = None THEN Aborted("panic")
             ELSE IF h \notin DOMAIN node.inputs[1] THEN Aborted("panic")
             ELSE IF d = 0 THEN Aborted("overflow")
             ELSE LET r == ResolveInputD(L, node.inputs[1][h], d - 1)
                  IN  IF r.st # "ok" THEN r
                      ELSE GetInputByPath(L, r.n, Tail(path), d)

ResolveInput(L, input_path) == ResolveInputD(L, input_path, MaxDepth)

\* the inner loop of closure over node.inputs.values(), in key order
RECURSIVE PushInputs(_, _, _, _, _)
PushInputs(L, inputs, keys, queue, visited) ==
    IF keys = <<>> THEN [st |-> "ok", queue |-> queue]
    ELSE LET next_input == ResolveInput(L, inputs[Head(keys)])
         IN  IF next_input.st # "ok" THEN [st |-> next_input.st, queue |-> queue]
             ELSE PushInputs(L, inputs, Tail(keys),
                             IF next_input.n \in visited THEN queue
                             ELSE Append(queue, next_input.n),
                             visited)

RECURSIVE ClosureLoop(_, _, _)
ClosureLoop(L, queue, visited) ==
    IF queue = <<>> THEN [st |-> "ok", set |-> visited]
    ELSE LET node_name == queue[Len(queue)]
             popped == SubSeq(queue, 1, Len(queue) - 1)
             seen == visited \cup {node_name}
         IN  IF node_name \notin Keys(L) THEN [st |-> "err", set |-> {}]
             ELSE LET node == L.nodes[node_name]
                  IN  IF node.inputs = None THEN ClosureLoop(L, popped, seen)
                      ELSE LET pushed == PushInputs(L, node.inputs[1],
                                             SortedKeys(DOMAIN node.inputs[1]),
                                             popped, seen)
                           IN  IF pushed.st # "ok"
                               THEN [st |-> pushed.st, set |-> {}]
                               ELSE ClosureLoop(L, pushed.queue, seen)

Closure(L) == ClosureLoop(L, <<L.root>>, {L.root})

\* ---------------------------------------------------- add / rm / rename / trim
Returned(st, L) == [st |-> st, lock |-> L]

Add(L, name, new_input_spec) ==
    IF name \notin Keys(L) THEN Returned("err", L)
    ELSE LET n1 == [L.nodes EXCEPT ![name].locked = Some(new_input_spec)]
         IN  IF L.root \notin DOMAIN n1 THEN Returned("err", [L EXCEPT !.nodes = n1])
             ELSE IF n1[L.root].inputs = None
                  THEN Returned("ok", [L EXCEPT !.nodes = n1])
                  ELSE Returned("ok", [L EXCEPT !.nodes =
                           [n1 EXCEPT ![L.root].inputs =
                               Some(MapInsert(n1[L.root].inputs[1], name, Direct(name)))]])

Rm(L, name) ==
    LET n1 == MapRemove(L.nodes, name)
    IN  IF L.root \notin DOMAIN n1 THEN Returned("err", [L EXCEPT !.nodes = n1])
        ELSE IF n1[L.root].inputs = None
             THEN Returned("ok", [L EXCEPT !.nodes = n1])
             ELSE Returned("ok", [L EXCEPT !.nodes =
                      [n1 EXCEPT ![L.root].inputs =
                          Some(MapRemove(n1[L.root].inputs[1], name))]])

RenameRefs(nodes, input_name, new_name) ==
    [k \in DOMAIN nodes |->
        IF nodes[k].inputs = None THEN nodes[k]
        ELSE [nodes[k] EXCEPT !.inputs =
                 Some([l \in DOMAIN nodes[k].inputs[1] |->
                          InputRefRename(nodes[k].inputs[1][l], input_name, new_name)])]]

RenameInput(L, input_name, new_name) ==
    IF input_name \notin Keys(L) THEN L
    ELSE LET n1 == RenameRefs(L.nodes, input_name, new_name)
         IN  [L EXCEPT !.nodes =
                 MapRemove(MapInsert(n1, new_name, n1[input_name]), input_name)]

RECURSIVE RmAll(_, _)
RmAll(L, remove) ==
    IF remove = <<>> THEN Returned("ok", L)
    ELSE LET r == Rm(L, Head(remove))
         IN  IF r.st # "ok" THEN r ELSE RmAll(r.lock, Tail(remove))

Trim(L) ==
    LET keep == Closure(L)
    IN  IF keep.st # "ok" THEN Returned(keep.st, L)
        ELSE RmAll(L, SortedKeys(Keys(L) \ keep.set))

\* every InputRef of every node resolves to a key of nodes, and root is a key
RefsResolve(L) ==
    \A k \in Keys(L) :
        L.nodes[k].inputs # None =>
            \A l \in DOMAIN L.nodes[k].inputs[1] :
                LET r == ResolveInput(L, L.nodes[k].inputs[1][l])
                IN  r.st = "ok" /\ r.n \in Keys(L)

WellFormed(L) == L.root \in Keys(L) /\ RefsResolve(L)

\* ------------------------------------------------------------------- merge
\* Every step also reports, in hits, the nodes it wrote under a name that was
\* already taken: [name, old, new] (ghost data, not part of the result).
Hit(name, old, new) == [name |-> name, old |-> old, new |-> new]

\* the root inputs whose key is a project label redirect the node they resolve to
RECURSIVE PlanShared(_, _, _, _, _)
PlanShared(lockfiles, L, root_inputs, keys, input_map) ==
    IF keys = <<>> THEN [st |-> "ok", map |-> input_map]
    ELSE IF Head(keys) \notin DOMAIN lockfiles
         THEN PlanShared(lockfiles, L, root_inputs, Tail(keys), input_map)
         ELSE LET orig_input_name == ResolveInput(L, root_inputs[Head(keys)])
              IN  IF orig_input_name.st # "ok"
                  THEN [st |-> orig_input_name.st, map |-> input_map]
                  ELSE PlanShared(lockfiles, L, root_inputs, Tail(keys),
                                  MapInsert(input_map, orig_input_name.n, Head(keys)))

\* input_map of one lockfile: namespace the private nodes, then plan the redirections
PlanRenames(lockfiles, name, L) ==
    LET namespaced == [input_name \in {k \in Keys(L) : k # ROOT /\ k \notin DOMAIN lockfiles}
                          |-> FormatName(name, input_name)]
    IN  IF ROOT \notin Keys(L) THEN [st |-> "panic", map |-> namespaced]
        ELSE LET root_inputs == IF L.nodes[ROOT].inputs = None THEN <<>>
                                ELSE L.nodes[ROOT].inputs[1]
             IN  PlanShared(lockfiles, L, root_inputs,
                            SortedKeys(DOMAIN root_inputs), namespaced)

RenameHits(L, input_name, new_name) ==
    IF input_name \in Keys(L) /\ new_name \in Keys(L) /\ new_name # input_name
    THEN LET n1 == RenameRefs(L.nodes, input_name, new_name)
         IN  {Hit(new_name, n1[new_name], n1[input_name])}
    ELSE {}

RECURSIVE ApplyRenames(_, _, _, _)
ApplyRenames(L, input_map, keys, hits) ==
    IF keys = <<>> THEN [lock |-> L, hits |-> hits]
    ELSE ApplyRenames(RenameInput(L, Head(keys), input_map[Head(keys)]),
                      input_map, Tail(keys),
                      hits \cup RenameHits(L, Head(keys), input_map[Head(keys)]))

\* one iteration of the first loop of merge: the lockfile of project name, renamed
RenameProject(lockfiles, name) ==
    LET L == lockfiles[name]
        plan == PlanRenames(lockfiles, name, L)
    IN  IF plan.st # "ok" THEN [st |-> plan.st, lock |-> L, hits |-> {}]
        ELSE LET applied == ApplyRenames(L, plan.map, SortedKeys(DOMAIN plan.map), {})
             IN  [st |-> "ok",
                  lock |-> RenameInput(applied.lock, ROOT, name),
                  hits |-> applied.hits \cup RenameHits(applied.lock, ROOT, name)]

\* new_nodes after inserting the nodes of the renamed lockfiles, in key order
RECURSIVE UnionNodes(_, _, _, _)
UnionNodes(renamed, names, new_nodes, hits) ==
    IF names = <<>> THEN [nodes |-> new_nodes, hits |-> hits]
    ELSE LET nodes == renamed[Head(names)].lock.nodes
         IN  UnionNodes(renamed, Tail(names),
                 [k \in DOMAIN new_nodes \cup DOMAIN nodes |->
                     IF k \in DOMAIN nodes THEN nodes[k] ELSE new_nodes[k]],
                 hits \cup {Hit(k, new_nodes[k], nodes[k]) :
                               k \in DOMAIN new_nodes \cap DOMAIN nodes})

\* (variant: LockedRef::empty() in place of the synthesized root)
EmptyRootNode(lockfiles) == LockedRef(None, None, Some(<<>>))

\* the new root node pointing to each of the original lockfiles
NewRootNode(lockfiles) ==
    LockedRef(None, None, Some([n \in DOMAIN lockfiles |-> Direct(n)]))

Merge(lockfiles) ==
    LET renamed == [name \in DOMAIN lockfiles |-> RenameProject(lockfiles, name)]
        failed == {name \in DOMAIN lockfiles : renamed[name].st # "ok"}
    IN  IF failed # {}
        THEN [st |-> renamed[Head(SortedKeys(failed))].st,
              lock |-> LockFile(<<>>, ROOT), hits |-> {}]
        ELSE LET union == UnionNodes(renamed, SortedKeys(DOMAIN lockfiles), <<>>, {})
                 lockfile == LockFile(MapInsert(union.nodes, ROOT, NewRootNode(lockfiles)), ROOT)
                 trimmed == Trim(lockfile)
                 hits == union.hits \cup UNION {renamed[name].hits : name \in DOMAIN lockfiles}
             IN  [st |-> trimmed.st, lock |-> trimmed.lock, hits |-> hits]

RECURSIVE PopulatePins(_, _, _)
PopulatePins(projects, names, L) ==
    IF names = <<>> THEN [st |-> "ok", lock |-> L]
    ELSE LET name == Head(names)
         IN  IF name \notin Keys(L) THEN [st |-> "err", lock |-> L]
             ELSE PopulatePins(projects, Tail(names),
                      [L EXCEPT !.nodes[name].original = Some(projects[name].original),
                                !.nodes[name].locked = Some(projects[name].locked)])

\* (variant: returns the merged lockfile without populating the pins)
FromMetadataKeepsMergedPins(projects) ==
    LET m == Merge([n \in DOMAIN projects |-> projects[n].locks])
    IN  [st |-> m.st, lock |-> m.lock]

FromMetadata(projects) ==
    LET m == Merge([n \in DOMAIN projects |-> projects[n].locks])
    IN  IF m.st # "ok" THEN [st |-> m.st, lock |-> m.lock]
        ELSE PopulatePins(projects, SortedKeys(DOMAIN projects), m.lock)

\* --------------------------------------------------------------- workspace
ProjectConfig(name, url, path) ==
    [name |-> name, url |-> url, path |-> path, strategy |-> None]

\* Vec::remove(index)
SeqRemove(q, index) == SubSeq(q, 1, index - 1) \o SubSeq(q, index + 1, Len(q))

\* iter().position(|p| p.name == name), 0 when there is none
Position(projs, name) ==
    IF \E i \in 1..Len(projs) : projs[i].name = name
    THEN CHOOSE i \in 1..Len(projs) :
             projs[i].name = name /\ \A j \in 1..(i - 1) : projs[j].name # name
    ELSE 0

\* Config::add_project
AddProject(config, name, url, path) ==
    [config EXCEPT !.projects = Append(@, ProjectConfig(name, url, path))]

\* LocalConfig::mark_editable / unmark_editable
MarkEditable(local, project_name) ==
    [local EXCEPT !.projects = MapInsert(@, project_name, [editable |-> TRUE])]
UnmarkEditable(local, project_name) ==
    [local EXCEPT !.projects = MapInsert(@, project_name, [editable |-> FALSE])]

\* Workspace::register
Register(w, name, url, path) ==
    [w EXCEPT !.config = AddProject(w.config, name, url, path),
              !.local = UnmarkEditable(w.local, name)]

\* the loop of deregister over self.lock: rm(name)? on every lockfile, in key order
RECURSIVE RmFromLocks(_, _, _)
RmFromLocks(locks, envs, name) ==
    IF envs = <<>> THEN [st |-> "ok", locks |-> locks]
    ELSE LET r == Rm(locks[Head(envs)], name)
             l1 == [locks EXCEPT ![Head(envs)] = r.lock]
         IN  IF r.st # "ok" THEN [st |-> r.st, locks |-> l1]
             ELSE RmFromLocks(l1, Tail(envs), name)

\* Workspace::deregister: [st, ws, dirs]
Deregister(w, d, name, delete) ==
    LET index == Position(w.config.projects, name)
        p == w.config.projects[index].path
        deleted == IF delete /\ index # 0 /\ p # None THEN d \ {p[1]} ELSE d
    IN  IF index = 0 THEN [st |-> "err", ws |-> w, dirs |-> d]
        ELSE IF delete /\ p # None /\ p[1] \notin d
        THEN [st |-> "err", ws |-> w, dirs |-> d]
        ELSE LET w1 == [w EXCEPT !.config.projects = SeqRemove(@, index)]
                 r == RmFromLocks(w1.lock, SortedKeys(DOMAIN w1.lock), name)
                 w2 == [w1 EXCEPT !.lock = r.locks]
             IN  IF r.st # "ok" THEN [st |-> r.st, ws |-> w2, dirs |-> deleted]
                 ELSE [st |-> "ok",
                       ws |-> [w2 EXCEPT !.local.projects = MapRemove(@, name)],
                       dirs |-> deleted]

\* LocalConfig::is_editable
IsEditable(local, project_name) ==
    IF project_name \in DOMAIN local.projects
    THEN local.projects[project_name].editable
    ELSE FALSE

\* (variant: marks the project without looking at the overlay first)
EditAlways(w, d, name, cloned) ==
    LET index == Position(w.config.projects, name)
        path == w.config.projects[index].path
    IN  IF index = 0 \/ path = None THEN [st |-> "err", ws |-> w, dirs |-> d]
        ELSE IF path[1] \notin d /\ ~cloned
        THEN [st |-> "clone_failed", ws |-> w, dirs |-> d]
        ELSE [st |-> "ok",
              ws |-> [w EXCEPT !.local = MarkEditable(w.local, name)],
              dirs |-> d \cup {path[1]}]

\* Workspace::edit: [st, ws, dirs]; cloned is the outcome of Nix::clone, which
\* runs only when the project's directory does not exist
Edit(w, d, name, cloned) ==
    LET index == Position(w.config.projects, name)
        path == w.config.projects[index].path
    IN  IF index = 0 \/ path = None THEN [st |-> "err", ws |-> w, dirs |-> d]
        ELSE IF path[1] \notin d /\ ~cloned
        THEN [st |-> "clone_failed", ws |-> w, dirs |-> d]
        ELSE IF IsEditable(w.local, name)
        THEN [st |-> "err", ws |-> w, dirs |-> d \cup {path[1]}]
        ELSE [st |-> "ok",
              ws |-> [w EXCEPT !.local = MarkEditable(w.local, name)],
              dirs |-> d \cup {path[1]}]

\* Workspace::unedit: [st, ws, dirs]
Unedit(w, d, name, delete) ==
    LET w1 == [w EXCEPT !.local = UnmarkEditable(w.local, name)]
        index == Position(w.config.projects, name)
        path == w.config.projects[index].path
    IN  IF ~delete THEN [st |-> "ok", ws |-> w1, dirs |-> d]
        ELSE IF index = 0 THEN [st |-> "err", ws |-> w1, dirs |-> d]
        ELSE IF path = None THEN [st |-> "ok", ws |-> w1, dirs |-> d]
        ELSE IF path[1] \notin d THEN [st |-> "err", ws |-> w1, dirs |-> d]
        ELSE [st |-> "ok", ws |-> w1, dirs |-> d \ {path[1]}]

\* Workspace::files: flake.nix, flake.lock, the config, then <env>.lock per environment
CONFIG_PATH == <<"nixspace.toml">>
EnvLockFile(env) == env \o <<".lock">>
Files(w) ==
    <<(<<"flake.nix">>), (<<"flake.lock">>), CONFIG_PATH>> \o
        [i \in 1..Len(w.config.environments) |-> EnvLockFile(w.config.environments[i].name)]

\* Git::changed(file): [st, val, calls]. probe is what the tool would find:
\* "fail" (the path cannot be resolved), "diff" (git diff exits non-zero),
\* "staged" (only git diff --staged exits non-zero), "same"
GitChanged(file, probe) ==
    CASE probe = "fail" -> [st |-> "err", val |-> FALSE, calls |-> <<>>]
      [] probe = "diff" -> [st |-> "ok", val |-> TRUE, calls |-> <<(<<"diff", file>>)>>]
      [] probe = "staged" ->
            [st |-> "ok", val |-> TRUE,
             calls |-> <<(<<"diff", file>>), (<<"diff --staged", file>>)>>]
      [] OTHER ->
            [st |-> "ok", val |-> FALSE,
             calls |-> <<(<<"diff", file>>), (<<"diff --staged", file>>)>>]

\* the loop of Workspace::changed over files(): every file is probed, the first
\* failing probe ends it
RECURSIVE ChangedLoop(_, _, _, _)
ChangedLoop(files, probe, changes, issued) ==
    IF files = <<>> THEN [st |-> "ok", val |-> changes # <<>>, calls |-> issued]
    ELSE LET c == GitChanged(Head(files), probe[Head(files)])
         IN  IF c.st # "ok" THEN [st |-> "err", val |-> FALSE, calls |-> issued \o c.calls]
             ELSE ChangedLoop(Tail(files), probe,
                              IF c.val THEN Append(changes, Head(files)) ELSE changes,
                              issued \o c.calls)

\* Workspace::changed
Changed(w, probe) == ChangedLoop(Files(w), probe, <<>>, <<>>)

PULL_REBASE == <<"pull", "--rebase">>

\* (variant: pulls whatever changed() answered)
SyncAnyway(w, wld) ==
    LET c == Changed(w, wld.probe)
    IN  IF c.st # "ok" THEN [st |-> "err", calls |-> c.calls]
        ELSE [st |-> IF wld.pull THEN "ok" ELSE "err",
              calls |-> Append(c.calls, PULL_REBASE)]

\* Workspace::sync: [st, calls]
Sync(w, wld) ==
    LET c == Changed(w, wld.probe)
    IN  IF c.st # "ok" THEN [st |-> "err", calls |-> c.calls]
        ELSE IF c.val THEN [st |-> "err", calls |-> c.calls]
        ELSE [st |-> IF wld.pull THEN "ok" ELSE "err",
              calls |-> Append(c.calls, PULL_REBASE)]

\* ---------------------------------------------------------- flake references
\* A string is a sequence of tokens: the delimiters ":", "/", "?", "&", "=" are
\* tokens of their own and every other token is a run of characters holding none
\* of them, so a character class of a regex is a set of excluded tokens.

\* the index of the first token of s that is in stop, Len(s) + 1 when there is none
RECURSIVE IndexOf(_, _, _)
IndexOf(s, stop, i) ==
    IF i > Len(s) THEN Len(s) + 1
    ELSE IF s[i] \in stop THEN i
    ELSE IndexOf(s, stop, i + 1)

\* [^x]+ matched greedily at the start of s, and what follows it
RunNot(s, stop) == SubSeq(s, 1, IndexOf(s, stop, 1) - 1)
AfterRun(s, stop) == SubSeq(s, IndexOf(s, stop, 1), Len(s))
Drop(s, n) == SubSeq(s, n + 1, Len(s))

\* str::split(sep): the pieces between the occurrences of sep
RECURSIVE Split(_, _)
Split(s, sep) ==
    IF IndexOf(s, {sep}, 1) > Len(s) THEN <<s>>
    ELSE <<RunNot(s, {sep})>> \o Split(Drop(AfterRun(s, {sep}), 1), sep)

RECURSIVE Concat(_)
Concat(pieces) == IF pieces = <<>> THEN <<>> ELSE Head(pieces) \o Concat(Tail(pieces))

\* split_once: the first piece, and the remaining pieces folded together with `+`
split_once(msg, sep) ==
    LET parts == Split(msg, sep)
    IN  [first |-> Head(parts), rest |-> Concat(Tail(parts))]

\* querystring::querify: split on '&', each pair split on '=' and cut to two
\* pieces; a pair without '=' is skipped
RECURSIVE QuerifyPairs(_)
QuerifyPairs(pairs) ==
    IF pairs = <<>> THEN <<>>
    ELSE LET it == Split(Head(pairs), "=")
         IN  (IF Len(it) >= 2 THEN <<(<<it[1], it[2]>>)>> ELSE <<>>)
                 \o QuerifyPairs(Tail(pairs))
querify(string) == QuerifyPairs(Split(string, "&"))

\* querystring::stringify: k=v& for every pair
RECURSIVE stringify(_)
stringify(query) ==
    IF query = <<>> THEN <<>>
    ELSE Head(query)[1] \o <<"=">> \o Head(query)[2] \o <<"&">> \o stringify(Tail(query))

params_to_string(params) ==
    IF params = <<>> THEN <<>>
    ELSE <<"?">> \o SubSeq(stringify(params), 1, Len(stringify(params)) - 1)

\* the tail (?:[?](.+))? of the regexes: the text after a '?', when there is some
QueryGroup(s) ==
    IF Len(s) >= 2 /\ s[1] = "?" THEN Drop(s, 1) ELSE <<>>

ParseErr == [st |-> "err"]
Parsed(r) == [st |-> "ok", ref |-> r]

\* an unanchored regex is tried at every start: the tokens a match cannot start with
RECURSIVE SkipWhile(_, _)
SkipWhile(s, skip) ==
    IF s # <<>> /\ Head(s) \in skip THEN SkipWhile(Tail(s), skip) ELSE s

\* a group (?:/([^/]+))? at the start of s: the captured run, <<>> when it fails
SlashGroup(s) ==
    IF Len(s) >= 2 /\ s[1] = "/" /\ s[2] # "/" THEN RunNot(Drop(s, 1), {"/"}) ELSE <<>>
Opt(run) == IF run = <<>> THEN None ELSE Some(run)

\* FlakeIndirect::parse: ([^/]+)(?:/([^/]+)(?:/([^/]+))?)?
FlakeIndirectParse(url) ==
    LET s1 == SkipWhile(url, {"/"})
        r1 == AfterRun(s1, {"/"})
        g2 == SlashGroup(r1)
        r2 == IF g2 = <<>> THEN <<>> ELSE Drop(r1, 1 + Len(g2))
        g3 == SlashGroup(r2)
    IN  IF s1 = <<>> THEN ParseErr
        ELSE Parsed([variant |-> "FlakeIndirect", flake_id |-> RunNot(s1, {"/"}),
                     rev_or_ref |-> Opt(g2), rev |-> Opt(g3)])

\* FlakePath::parse: ([^?]+)(?:[?](.+))?$
FlakePathParse(url) ==
    LET s1 == SkipWhile(url, {"?"})
        rem == AfterRun(s1, {"?"})
    IN  IF s1 = <<>> \/ Len(rem) = 1 THEN ParseErr
        ELSE Parsed([variant |-> "FlakePath", path |-> RunNot(s1, {"?"}),
                     params |-> querify(QueryGroup(rem))])

\* the longest proper prefix of the run srv after which [^?]+ can start, 0 if none
RECURSIVE GiveBack(_, _)
GiveBack(srv, k) ==
    IF k < 1 THEN 0
    ELSE IF srv[k + 1] # "?" THEN k
    ELSE GiveBack(srv, k - 1)

\* parse_server_url: (?://([^/]+))?([^?]+)(?:[?](.+))? -> [st, server, path, params]
RECURSIVE parse_server_url(_)
parse_server_url(url) ==
    LET srv == IF Len(url) >= 3 /\ url[1] = "/" /\ url[2] = "/" /\ url[3] # "/"
               THEN RunNot(Drop(url, 2), {"/"}) ELSE <<>>
        rem == IF srv = <<>> THEN url ELSE Drop(url, 2 + Len(srv))
        k == IF srv = <<>> THEN 0
             ELSE IF RunNot(rem, {"?"}) # <<>> THEN Len(srv)
             ELSE GiveBack(srv, Len(srv) - 1)
        server == SubSeq(srv, 1, k)
        rest == IF k = 0 THEN url ELSE Drop(url, 2 + k)
    IN  IF url = <<>> THEN [st |-> "err"]
        ELSE IF RunNot(rest, {"?"}) = <<>> THEN parse_server_url(Tail(url))
        ELSE [st |-> "ok", server |-> Opt(server), path |-> RunNot(rest, {"?"}),
              params |-> querify(QueryGroup(AfterRun(rest, {"?"})))]

\* GitUrl::parse / MercurialUrl::parse
ServerUrlParse(variant, scheme, url) ==
    LET m == parse_server_url(url)
    IN  IF m.st # "ok" THEN ParseErr
        ELSE Parsed([variant |-> variant, scheme |-> scheme, server |-> m.server,
                     path |-> m.path, params |-> m.params])

\* TarballUrl::parse: //(.+)
RECURSIVE TarballUrlParse(_, _)
TarballUrlParse(scheme, url) ==
    IF Len(url) < 3 THEN ParseErr
    ELSE IF url[1] = "/" /\ url[2] = "/"
    THEN Parsed([variant |-> "TarballUrl", scheme |-> scheme, url |-> Drop(url, 2)])
    ELSE TarballUrlParse(scheme, Tail(url))

\* parse_simple_url: ([^/]+)/([^/]+)(?:/([^?]+))?(?:[?](.+))?
RECURSIVE parse_simple_url(_)
parse_simple_url(url) ==
    LET s1 == SkipWhile(url, {"/"})
        owner == RunNot(s1, {"/"})
        r1 == Drop(AfterRun(s1, {"/"}), 1)
        repo == RunNot(r1, {"/"})
        r2 == AfterRun(r1, {"/"})
        g3 == IF Len(r2) >= 2 /\ r2[1] = "/" THEN RunNot(Drop(r2, 1), {"?"}) ELSE <<>>
        r3 == IF g3 = <<>> THEN r2 ELSE Drop(r2, 1 + Len(g3))
    IN  IF s1 = <<>> \/ AfterRun(s1, {"/"}) = <<>> THEN [st |-> "err"]
        ELSE IF repo = <<>> THEN parse_simple_url(r1)
        ELSE [st |-> "ok", owner |-> owner, repo |-> repo, rev_or_ref |-> Opt(g3),
              params |-> querify(QueryGroup(r3))]

\* SimpleGitUrl::parse
SimpleGitUrlParse(scheme, domain, url) ==
    LET m == parse_simple_url(url)
    IN  IF m.st # "ok" THEN ParseErr
        ELSE Parsed([variant |-> "SimpleGitUrl", scheme |-> scheme, domain |-> domain,
                     owner |-> m.owner, repo |-> m.repo,
                     rev_or_ref |-> m.rev_or_ref, params |-> m.params])

\* parse: split the scheme off, then dispatch on it exactly
parse(url) ==
    LET scheme == split_once(url, ":").first
        rest == split_once(url, ":").rest
    IN  CASE scheme = <<"flake">> -> FlakeIndirectParse(rest)
          [] scheme = <<"path">> -> FlakePathParse(rest)
          [] scheme = <<"git+http">> -> ServerUrlParse("GitUrl", <<"http">>, rest)
          [] scheme = <<"git+https">> -> ServerUrlParse("GitUrl", <<"https">>, rest)
          [] scheme = <<"git+ssh">> -> ServerUrlParse("GitUrl", <<"ssh">>, rest)
          [] scheme = <<"git+file">> -> ServerUrlParse("GitUrl", <<"file">>, rest)
          [] scheme = <<"mc+http">> -> ServerUrlParse("MercurialUrl", <<"http">>, rest)
          [] scheme = <<"mc+https">> -> ServerUrlParse("MercurialUrl", <<"https">>, rest)
          [] scheme = <<"mc+ssh">> -> ServerUrlParse("MercurialUrl", <<"ssh">>, rest)
          [] scheme = <<"mc+file">> -> ServerUrlParse("MercurialUrl", <<"file">>, rest)
          [] scheme = <<"tarball+http">> -> TarballUrlParse(<<"http">>, rest)
          [] scheme = <<"tarball+https">> -> TarballUrlParse(<<"https">>, rest)
          [] scheme = <<"tarball+file">> -> TarballUrlParse(<<"file">>, rest)
          [] scheme = <<"github">> ->
                SimpleGitUrlParse(<<"github">>, <<"github.com", "/">>, rest)
          [] scheme = <<"gitlab">> ->
                SimpleGitUrlParse(<<"gitlab">>, <<"gitlab.com", "/">>, rest)
          [] scheme = <<"sourcehut">> ->
                SimpleGitUrlParse(<<"sourcehut">>, <<"git.sr.ht", "/", "~">>, rest)
          [] OTHER -> ParseErr

\* format!("/{}", s) of an optional component, "" when absent
SlashOpt(o) == IF o = None THEN <<>> ELSE <<"/">> \o o[1]
ServerOpt(o) == IF o = None THEN <<>> ELSE <<"/", "/">> \o o[1]

fmt_simple_url(scheme, owner, repo, rev_or_ref, params) ==
    scheme \o <<":">> \o owner \o <<"/">> \o repo \o SlashOpt(rev_or_ref)
        \o params_to_string(params)

\* FlakeRef::flake_url of each variant
flake_url(r) ==
    CASE r.variant = "FlakeIndirect" ->
            <<"flake", ":">> \o r.flake_id \o SlashOpt(r.rev_or_ref) \o SlashOpt(r.rev)
      [] r.variant = "FlakePath" -> <<"path", ":">> \o r.path \o params_to_string(r.params)
      [] r.variant = "GitUrl" ->
            <<"git+" \o r.scheme[1], ":">> \o ServerOpt(r.server) \o r.path
                \o params_to_string(r.params)
      [] r.variant = "MercurialUrl" ->
            <<"mc+" \o r.scheme[1], ":">> \o ServerOpt(r.server) \o r.path
                \o params_to_string(r.params)
      [] r.variant = "TarballUrl" ->
            <<"tarball+" \o r.scheme[1], ":", "/", "/">> \o r.url
      [] OTHER -> fmt_simple_url(<<"github">>, r.owner, r.repo, r.rev_or_ref, r.params)

\* (variant: a Mercurial reference answers like a Git one)
git_remote_url_hg(r) ==
    CASE r.variant \in {"GitUrl", "MercurialUrl"} ->
            Some(r.scheme \o <<":">> \o ServerOpt(r.server) \o r.path)
      [] r.variant = "SimpleGitUrl" ->
            Some(<<"https", ":", "/", "/">> \o r.domain \o r.owner \o <<"/">> \o r.repo
                     \o <<".git">>)
      [] OTHER -> None

\* FlakeRef::git_remote_url of each variant: Some(url) or None
git_remote_url(r) ==
    CASE r.variant = "GitUrl" -> Some(r.scheme \o <<":">> \o ServerOpt(r.server) \o r.path)
      [] r.variant = "SimpleGitUrl" ->
            Some(<<"https", ":", "/", "/">> \o r.domain \o r.owner \o <<"/">> \o r.repo
                     \o <<".git">>)
      [] OTHER -> None

\* ----------------------------------------------------------- update strategy
LATEST == [tag |-> "Latest"]
LatestTag(pattern) == [tag |-> "LatestTag", pattern |-> pattern]
Branch(branch) == [tag |-> "Branch", branch |-> branch]

GitRef(rev, git_ref) == [rev |-> rev, git_ref |-> git_ref]

\* glob_match::glob_match over tokens: "*" matches a run holding no separator,
\* every other token matches itself
RECURSIVE glob_match(_, _)
glob_match(glob, path) ==
    IF glob = <<>> THEN path = <<>>
    ELSE IF Head(glob) = "*"
    THEN \E k \in 0..Len(RunNot(path, {"/"})) : glob_match(Tail(glob), Drop(path, k))
    ELSE path # <<>> /\ Head(path) = Head(glob) /\ glob_match(Tail(glob), Tail(path))

\* Git::ls_remote: [st, revs, calls]; an unreachable remote fails, and so does an
\* empty listing, whose only line has no rev
ls_remote(wld, remote_url) ==
    [st |-> IF wld.ls_ok /\ wld.listing # <<>> THEN "ok" ELSE "err",
     revs |-> wld.listing,
     calls |-> <<(<<"ls-remote", remote_url>>)>>]

\* revs.iter().find(|r| r.git_ref == name): the index of the first such entry, 0 if none
FindRef(revs, name) ==
    IF \E i \in DOMAIN revs : revs[i].git_ref = name
    THEN CHOOSE i \in DOMAIN revs :
            revs[i].git_ref = name /\ \A j \in 1..(i - 1) : revs[j].git_ref # name
    ELSE 0

\* revs.iter().filter(|r| glob_match(&glob, &r.git_ref)): the indices kept
Filtered(revs, glob) == {i \in DOMAIN revs : glob_match(glob, revs[i].git_ref)}
Max(S) == CHOOSE x \in S : \A y \in S : y <= x
Min(S) == CHOOSE x \in S : \A y \in S : x <= y

TagGlob(pattern) ==
    <<"refs", "/", "tags", "/">> \o (IF pattern = None THEN <<"*">> ELSE pattern[1])

\* (variant: no entry is not an error, the rev is left alone)
FoundRevOrNone(l, name) ==
    IF FindRef(l.revs, name) = 0 THEN [st |-> "ok", rev |-> None, calls |-> l.calls]
    ELSE [st |-> "ok", rev |-> Some(l.revs[FindRef(l.revs, name)].rev), calls |-> l.calls]

\* the rev found by find(..).ok_or(..)?: an error when there is no such entry
FoundRev(l, name) ==
    IF FindRef(l.revs, name) = 0 THEN [st |-> "err", rev |-> None, calls |-> l.calls]
    ELSE [st |-> "ok", rev |-> Some(l.revs[FindRef(l.revs, name)].rev), calls |-> l.calls]

\* (variant: LatestTag takes the first matching entry)
get_git_rev_first(strategy, remote_url, wld) ==
    LET l == ls_remote(wld, remote_url)
        kept == Filtered(l.revs, TagGlob(strategy.pattern))
    IN  CASE strategy.tag = "Freeze" -> [st |-> "ok", rev |-> None, calls |-> <<>>]
          [] l.st # "ok" -> [st |-> "err", rev |-> None, calls |-> l.calls]
          [] strategy.tag = "Latest" -> FoundRev(l, <<"HEAD">>)
          [] strategy.tag = "Branch" -> FoundRev(l, strategy.branch)
          [] OTHER ->
                [st |-> "ok",
                 rev |-> IF kept = {} THEN None ELSE Some(l.revs[Min(kept)].rev),
                 calls |-> l.calls]

\* UpdateStrategy::get_git_rev: [st, rev, calls]
get_git_rev(strategy, remote_url, wld) ==
    LET l == ls_remote(wld, remote_url)
        kept == Filtered(l.revs, TagGlob(strategy.pattern))
    IN  CASE strategy.tag = "Freeze" -> [st |-> "ok", rev |-> None, calls |-> <<>>]
          [] l.st # "ok" -> [st |-> "err", rev |-> None, calls |-> l.calls]
          [] strategy.tag = "Latest" -> FoundRev(l, <<"HEAD">>)
          [] strategy.tag = "Branch" -> FoundRev(l, strategy.branch)
          [] OTHER ->
                [st |-> "ok",
                 rev |-> IF kept = {} THEN None ELSE Some(l.revs[Max(kept)].rev),
                 calls |-> l.calls]

\* the reference update() passes on: the reference, and the rev substituted into it
NewRef(flake_ref) == [ref |-> flake_ref, rev |-> None]
with_rev(flake_ref, rev) == [ref |-> flake_ref, rev |-> Some(rev)]

\* what `nix flake metadata` answers for a query: the project's own lockfile has
\* no inputs, the pin names the url and the rev asked for
MetadataOf(new_ref) ==
    [locks |-> LockFile(ROOT :> LockedRef(None, None, Some(<<>>)), ROOT),
     locked |-> <<"locked", flake_url(new_ref.ref), new_ref.rev>>,
     original |-> <<"original", flake_url(new_ref.ref)>>]

\* Nix::flake_metadata(&new_ref.flake_url()): [st, metadata, calls]
flake_metadata(wld, new_ref) ==
    [st |-> IF wld.meta_ok THEN "ok" ELSE "err",
     metadata |-> MetadataOf(new_ref),
     calls |-> <<(<<"flake_metadata", flake_url(new_ref.ref), new_ref.rev>>)>>]

\* (variant: a frozen reference is resolved like Latest)
update_thawed(strategy, flake_ref, wld) ==
    LET remote_url == git_remote_url(flake_ref)
        g == IF remote_url = None THEN [st |-> "ok", rev |-> None, calls |-> <<>>]
             ELSE get_git_rev(LATEST, remote_url[1], wld)
        new_ref == IF g.rev = None THEN NewRef(flake_ref)
                   ELSE with_rev(flake_ref, g.rev[1])
        m == flake_metadata(wld, new_ref)
    IN  IF g.st # "ok"
        THEN [st |-> "err", rev |-> None, metadata |-> <<>>, calls |-> g.calls]
        ELSE [st |-> m.st, rev |-> g.rev, metadata |-> m.metadata,
              calls |-> g.calls \o m.calls]

\* UpdateStrategy::update: [st, rev, metadata, calls]
update(strategy, flake_ref, wld) ==
    LET remote_url == git_remote_url(flake_ref)
        g == IF remote_url = None THEN [st |-> "ok", rev |-> None, calls |-> <<>>]
             ELSE get_git_rev(strategy, remote_url[1], wld)
        new_ref == IF g.rev = None THEN NewRef(flake_ref)
                   ELSE with_rev(flake_ref, g.rev[1])
        m == flake_metadata(wld, new_ref)
    IN  IF g.st # "ok"
        THEN [st |-> "err", rev |-> None, metadata |-> <<>>, calls |-> g.calls]
        ELSE [st |-> m.st, rev |-> g.rev, metadata |-> m.metadata,
              calls |-> g.calls \o m.calls]

\* Config::env: the index of the first environment named name, 0 if none
EnvIndex(config, name) ==
    IF \E i \in DOMAIN config.environments : config.environments[i].name = name
    THEN CHOOSE i \in DOMAIN config.environments :
            /\ config.environments[i].name = name
            /\ \A j \in 1..(i - 1) : config.environments[j].name # name
    ELSE 0

\* (variant: every project is updated with the environment's strategy)
DefaultStrategy(project, e, default) == default

\* the strategy of a project in environment e: its override for e, else the default
EffectiveStrategy(project, e, default) ==
    IF project.strategy # None /\ e \in DOMAIN project.strategy[1]
    THEN project.strategy[1][e]
    ELSE default

\* one iteration of the loop of update_all_projects, given the outcome u of
\* project.update: [st, lock_updates, calls]
RECURSIVE UpdateLoop(_, _, _, _, _, _)
UpdateStep(projs, e, default, wld, lock_updates, issued, u) ==
    IF u.st # "ok"
    THEN [st |-> "err", lock_updates |-> lock_updates, calls |-> issued \o u.calls]
    ELSE UpdateLoop(Tail(projs), e, default, wld,
                    MapInsert(lock_updates, Head(projs).name, u.metadata),
                    issued \o u.calls)

\* the loop of update_all_projects: [st, lock_updates, calls]
UpdateLoop(projs, e, default, wld, lock_updates, issued) ==
    IF projs = <<>> THEN [st |-> "ok", lock_updates |-> lock_updates, calls |-> issued]
    ELSE UpdateStep(projs, e, default, wld, lock_updates, issued,
                    update(EffectiveStrategy(Head(projs), e, default),
                           parse(Head(projs).url).ref, wld))

\* (variant: the lock map is replaced by the one new entry)
StoreLockAlone(w, e, issued, new_lock) ==
    IF new_lock.st # "ok" THEN [st |-> new_lock.st, ws |-> w, calls |-> issued]
    ELSE [st |-> "ok", ws |-> [w EXCEPT !.lock = (e :> new_lock.lock)],
          calls |-> issued]

\* the end of update_all_projects, given the lockfile new_lock built from the
\* updates: self.lock.insert(env, new_lock)
StoreLock(w, e, issued, new_lock) ==
    IF new_lock.st # "ok" THEN [st |-> new_lock.st, ws |-> w, calls |-> issued]
    ELSE [st |-> "ok", ws |-> [w EXCEPT !.lock = MapInsert(@, e, new_lock.lock)],
          calls |-> issued]

\* update_all_projects after its loop has returned l
UpdateCommit(w, e, l) ==
    IF l.st # "ok" THEN [st |-> "err", ws |-> w, calls |-> l.calls]
    ELSE StoreLock(w, e, l.calls, FromMetadata(l.lock_updates))

\* Workspace::update_all_projects: [st, ws, calls]
UpdateAllProjects(w, env, wld) ==
    LET e == IF env = None THEN w.config.default_env ELSE env[1]
        index == EnvIndex(w.config, e)
    IN  IF e \notin DOMAIN w.lock \/ index = 0 THEN [st |-> "err", ws |-> w, calls |-> <<>>]
        ELSE IF \E i \in DOMAIN w.config.projects : parse(w.config.projects[i].url).st # "ok"
        THEN [st |-> "panic", ws |-> w, calls |-> <<>>]
        ELSE UpdateCommit(w, e,
                 UpdateLoop(w.config.projects, e, w.config.environments[index].strategy,
                            wld, <<>>, <<>>))

\* ------------------------------------------------ lockfile operation sequences
\* InputSpec values are opaque: only their equality is used by the code
Pin0 == <<"pin0">>
Orig0 == <<"orig0">>
Pin1 == <<"pin1">>

PartialMaps(D, R) == UNION {[S -> R] : S \in SUBSET D}

Leaf(inputs) == LockedRef(Some(Pin0), Some(Orig0), inputs)

\* the lockfiles an operation sequence starts from (as read from disk): root plus
\* any of a, b, c; root may name an input differently from the node it points to,
\* and may follow a path through a
InitRootInputs ==
    PartialMaps({NA, NB}, {Direct(NA), Direct(NB), Direct(NC), Path(<<NA, NB>>)})

InitInputs(n) ==
    CASE n = NA -> {None} \cup {Some(m) : m \in PartialMaps({NB}, {Direct(NB), Direct(NC)})}
      [] n = NB -> {None} \cup {Some(m) : m \in PartialMaps({NC}, {Direct(NC)})}
      [] OTHER -> {None}

InitLocks ==
    {L \in UNION {
        {LockFile([k \in S \cup {ROOT} |->
                      IF k = ROOT THEN LockedRef(None, None, Some(ri))
                      ELSE Leaf(ins[k])], ROOT) :
            ri \in InitRootInputs,
            ins \in [S -> UNION {InitInputs(n) : n \in S}]}
        : S \in SUBSET {NA, NB, NC}} :
     /\ \A k \in Keys(L) \ {ROOT} : L.nodes[k].inputs \in InitInputs(k)
     /\ WellFormed(L)}

OpNames == {ROOT, NA, NB, NC}

Alive == res \notin {"panic", "overflow"}

NoProjects == <<>>
NoOutput == [st |-> "ok", lock |-> LockFile(<<>>, ROOT), hits |-> {}]

MergeIdle == metadata = NoProjects /\ mop = "init" /\ out = NoOutput

\* Config::new(): one environment dev, no projects
DEV == <<"dev">>
PROD == <<"prod">>
NewConfig == [environments |-> <<[name |-> DEV, strategy |-> "latest"]>>,
              projects |-> <<>>,
              default_env |-> DEV]

\* no external tool is consulted
NoWorld == <<>>
ExtIdle == world = NoWorld /\ calls = <<>>

\* no reference is being parsed or updated
FREEZE == [tag |-> "Freeze"]
RefIdle == given = <<>> /\ policy = FREEZE /\ rout = [kind |-> "init"]

WsIdle ==
    /\ ws = [config |-> NewConfig, lock |-> <<>>, local |-> [projects |-> <<>>]]
    /\ dirs = {}
    /\ wop = [kind |-> "init", name |-> <<>>, st |-> "ok"]
    /\ ExtIdle
    /\ RefIdle

LockInit ==
    /\ MergeIdle
    /\ WsIdle
    /\ lock \in InitLocks
    /\ pre = lock
    /\ op = [kind |-> "init", a |-> <<>>, b |-> <<>>]
    /\ res = "ok"
    /\ clean = TRUE
    /\ steps = 0

Stepped(kind, a, b, r) ==
    /\ steps < MaxSteps
    /\ Alive
    /\ pre' = lock
    /\ op' = [kind |-> kind, a |-> a, b |-> b]
    /\ res' = r.st
    /\ lock' = r.lock
    /\ clean' = (clean /\ r.st = "ok")
    /\ steps' = steps + 1
    /\ UNCHANGED <<mergeVars, wsVars, extVars, refVars>>

DoAdd == \E name \in OpNames : Stepped("add", name, Pin1, Add(lock, name, Pin1))

DoRm == \E name \in OpNames : Stepped("rm", name, <<>>, Rm(lock, name))

DoRenameInput ==
    \E input_name \in OpNames, new_name \in OpNames :
        Stepped("rename_input", input_name, new_name,
                Returned("ok", RenameInput(lock, input_name, new_name)))

DoTrim == Stepped("trim", <<>>, <<>>, Trim(lock))

LockNext == DoAdd \/ DoRm \/ DoRenameInput \/ DoTrim

SpecLock == LockInit /\ [][LockNext]_vars

\* ------------------------------------------------------------ merge runs
MetaPin(name) == <<"locked">> \o name
MetaOrig(name) == <<"original">> \o name

\* the sub-lockfiles `flake metadata` may report for a project beside project
\* other: private nodes a and b, possibly a node named like the other project;
\* references may dangle (the document is parsed, not validated)
ProjRootInputs(other) ==
    {m \in PartialMaps({NA, other},
                       {Direct(NA), Direct(NB), Direct(other), Path(<<NA, NB>>)}) :
        /\ NA \in DOMAIN m => m[NA] \in {Direct(NA), Path(<<NA, NB>>)}
        /\ other \in DOMAIN m => m[other].tag = "Direct"}

ProjLock(S, ri, ai) ==
    LockFile([k \in S \cup {ROOT} |->
                 IF k = ROOT THEN LockedRef(None, None, Some(ri))
                 ELSE IF k = NA THEN Leaf(ai)
                 ELSE Leaf(None)], ROOT)

FlakeMetadata(name, locks) ==
    [locks |-> locks, locked |-> MetaPin(name), original |-> MetaOrig(name)]

LockIdle ==
    /\ lock = LockFile(<<>>, ROOT)
    /\ pre = lock
    /\ op = [kind |-> "init", a |-> <<>>, b |-> <<>>]
    /\ res = "ok"
    /\ clean = TRUE
    /\ steps = 0

MergeInit ==
    /\ LockIdle
    /\ WsIdle
    /\ \E D \in (SUBSET {LA, LB}) \ {{}},
          SA \in SUBSET {NA, NB, LB}, SB \in SUBSET {NA, NB, LA},
          riA \in ProjRootInputs(LB), riB \in ProjRootInputs(LA),
          aiA \in {None, Some(NB :> Direct(NB))},
          aiB \in {None, Some(NB :> Direct(NB))} :
        /\ (NA \notin SA \/ LA \notin D) => aiA = None
        /\ (NA \notin SB \/ LB \notin D) => aiB = None
        /\ LA \notin D => (SA = {} /\ riA = <<>>)
        /\ LB \notin D => (SB = {} /\ riB = <<>>)
        /\ metadata = [name \in D |->
                          FlakeMetadata(name, IF name = LA THEN ProjLock(SA, riA, aiA)
                                              ELSE ProjLock(SB, riB, aiB))]
    /\ mop = "init"
    /\ out = NoOutput

DoMerge ==
    /\ mop = "init"
    /\ mop' = "merge"
    /\ out' = Merge([n \in DOMAIN metadata |-> metadata[n].locks])
    /\ UNCHANGED <<metadata, lockVars, wsVars, extVars, refVars>>

DoFromMetadata ==
    /\ mop = "init"
    /\ mop' = "from_metadata"
    /\ out' = [st |-> FromMetadata(metadata).st,
               lock |-> FromMetadata(metadata).lock,
               hits |-> {}]
    /\ UNCHANGED <<metadata, lockVars, wsVars, extVars, refVars>>

MergeNext == DoMerge \/ DoFromMetadata

SpecMerge == MergeInit /\ [][MergeNext]_vars

\* ------------------------------------------------------- workspace commands
FlakeUrl == <<"github:chadac/nixspace">>
ProjectDir(name) == <<"dir">> \o name

\* the lockfile of an environment after an update of the projects in names
EnvLock(names) ==
    LockFile([k \in names \cup {ROOT} |->
                 IF k = ROOT THEN LockedRef(None, None, Some([n \in names |-> Direct(n)]))
                 ELSE LockedRef(Some(MetaPin(k)), Some(MetaOrig(k)), Some(<<>>))], ROOT)

\* a workspace as loaded by Workspace::at: environments dev and prod, at most one
\* project registered and locked, project names unique
WsInit ==
    /\ MergeIdle
    /\ LockIdle
    /\ \E names \in {{}, {LA}}, locked \in SUBSET {LA}, existing \in SUBSET {LA, LB} :
        /\ locked \subseteq names
        /\ ws = [config |->
                     [environments |-> <<[name |-> DEV, strategy |-> "latest"],
                                         [name |-> PROD, strategy |-> "freeze"]>>,
                      projects |-> [i \in 1..Cardinality(names) |->
                                       ProjectConfig(LA, FlakeUrl, Some(ProjectDir(LA)))],
                      default_env |-> DEV],
                 lock |-> (DEV :> EnvLock(names)) @@ (PROD :> EnvLock(locked)),
                 local |-> [projects |-> [n \in names |-> [editable |-> FALSE]]]]
        /\ dirs = {ProjectDir(n) : n \in existing}
    /\ wop = [kind |-> "init", name |-> <<>>, st |-> "ok"]
    /\ ExtIdle
    /\ RefIdle

DoRegister ==
    \E name \in {LA, LB} : \E path \in {None, Some(ProjectDir(name))} :
        /\ Len(ws.config.projects) < MaxProjects
        /\ ws' = Register(ws, name, FlakeUrl, path)
        /\ wop' = [kind |-> "register", name |-> name, st |-> "ok"]
        /\ UNCHANGED <<dirs, lockVars, mergeVars, extVars, refVars>>

DoDeregister ==
    \E name \in {LA, LB}, delete \in BOOLEAN :
        LET r == Deregister(ws, dirs, name, delete)
        IN  /\ ws' = r.ws
            /\ dirs' = r.dirs
            /\ wop' = [kind |-> "deregister", name |-> name, st |-> r.st]
            /\ UNCHANGED <<lockVars, mergeVars, extVars, refVars>>

DoEdit ==
    \E name \in {LA, LB}, cloned \in BOOLEAN :
        LET r == Edit(ws, dirs, name, cloned)
        IN  /\ ws' = r.ws
            /\ dirs' = r.dirs
            /\ wop' = [kind |-> "edit", name |-> name, st |-> r.st]
            /\ UNCHANGED <<lockVars, mergeVars, extVars, refVars>>

DoUnedit ==
    \E name \in {LA, LB}, delete \in BOOLEAN :
        LET r == Unedit(ws, dirs, name, delete)
        IN  /\ ws' = r.ws
            /\ dirs' = r.dirs
            /\ wop' = [kind |-> "unedit", name |-> name, st |-> r.st]
            /\ UNCHANGED <<lockVars, mergeVars, extVars, refVars>>

WsNext == DoRegister \/ DoDeregister \/ DoEdit \/ DoUnedit

SpecWs == WsInit /\ [][WsNext]_vars

\* ----------------------------------------------------------------- sync runs
ProbeOutcomes == {"same", "diff", "staged", "fail"}
Range(q) == {q[i] : i \in DOMAIN q}

\* a workspace with one or two environments, in a checkout whose files are in any
\* state; the pull may succeed or fail
SyncInit ==
    /\ LockIdle
    /\ MergeIdle
    /\ \E envs \in {<<[name |-> DEV, strategy |-> "latest"]>>,
                    <<[name |-> DEV, strategy |-> "latest"],
                      [name |-> PROD, strategy |-> "freeze"]>>} :
        /\ ws = [config |-> [NewConfig EXCEPT !.environments = envs],
                 lock |-> <<>>, local |-> [projects |-> <<>>]]
        /\ \E probe \in [Range(Files(ws)) -> ProbeOutcomes], pull \in BOOLEAN :
              world = [probe |-> probe, pull |-> pull]
    /\ dirs = {}
    /\ wop = [kind |-> "init", name |-> <<>>, st |-> "ok"]
    /\ calls = <<>>
    /\ RefIdle

DoSync ==
    /\ wop' = [kind |-> "sync", name |-> <<>>, st |-> Sync(ws, world).st]
    /\ calls' = Sync(ws, world).calls
    /\ UNCHANGED <<ws, dirs, world, lockVars, mergeVars, refVars>>

SyncNext == DoSync

SpecSync == SyncInit /\ [][SyncNext]_vars

\* ------------------------------------------------------------ reference runs
MaxParams == 2

\* the query string k=v&... of n parameters
ParamKeys == <<"rev", "ref", "dir", "narHash">>
RECURSIVE QueryOf(_)
QueryOf(n) ==
    IF n = 0 THEN <<>>
    ELSE (IF n = 1 THEN <<"?">> ELSE QueryOf(n - 1) \o <<"&">>)
             \o <<ParamKeys[n], "=", "v">>

\* the reference strings of the grammar handed to parse: every variant and scheme,
\* with and without the optional components, a port in the server, a ':' in a path
IndirectUrls ==
    {<<"flake", ":", "nixpkgs">> \o t :
        t \in {<<>>, <<"/", "unstable">>, <<"/", "unstable", "/", "a3a3">>}}
ServerParts == {<<>>, <<"/", "/", "host">>, <<"/", "/", "host", ":", "22">>}
PathParts == {<<"/", "share">>, <<"/", "chadac", "/", "nixspace">>}
ServerUrls ==
    {<<sch, ":">> \o srv \o pth :
        sch \in {"git+http", "git+https", "git+ssh", "git+file",
                 "mc+http", "mc+https", "mc+ssh", "mc+file"},
        srv \in ServerParts, pth \in PathParts}
PathUrls ==
    {<<"path", ":">> \o pth : pth \in {<<".", "/", "test">>, <<"/", "c", ":", "test">>}}
TarballUrls ==
    {<<sch, ":", "/", "/">> \o u :
        sch \in {"tarball+http", "tarball+https", "tarball+file"},
        u \in {<<"host", "/", "x.tar">>, <<"host", ":", "80", "/", "x.tar">>}}
SimpleUrls ==
    {<<sch, ":", "chadac", "/", "nixspace">> \o rr :
        sch \in {"github", "gitlab", "sourcehut"}, rr \in {<<>>, <<"/", "main">>}}

RefInit ==
    /\ LockIdle
    /\ MergeIdle
    /\ ws = [config |-> NewConfig, lock |-> <<>>, local |-> [projects |-> <<>>]]
    /\ dirs = {}
    /\ wop = [kind |-> "init", name |-> <<>>, st |-> "ok"]
    /\ ExtIdle
    /\ \/ given \in IndirectUrls \cup TarballUrls
       \/ \E u \in ServerUrls \cup PathUrls \cup SimpleUrls, n \in 0..MaxParams :
             given = u \o QueryOf(n)
    /\ policy = FREEZE
    /\ rout = [kind |-> "init"]

DoParse ==
    /\ rout.kind = "init"
    /\ rout' = [kind |-> "parse", res |-> parse(given)]
    /\ UNCHANGED <<given, policy, lockVars, mergeVars, wsVars, extVars>>

RefNext == DoParse

SpecRef == RefInit /\ [][RefNext]_vars

\* ------------------------------------------------------------- strategy runs
MaxListing == 2

HEAD == <<"HEAD">>
MAIN == <<"main">>
RevNames == <<"r1", "r2", "r3", "r4">>

\* the refs a remote may list: HEAD, a bare branch name, a branch, two tags and a
\* tag with a separator in its name
ListedRefs ==
    {HEAD, MAIN, <<"refs", "/", "heads", "/", "main">>,
     <<"refs", "/", "tags", "/", "v", "1">>, <<"refs", "/", "tags", "/", "v", "2">>,
     <<"refs", "/", "tags", "/", "rel", "/", "1">>}

Policies ==
    {LATEST, FREEZE, LatestTag(None), LatestTag(Some(<<"*">>)),
     LatestTag(Some(<<"v", "*">>)), Branch(MAIN)}

\* one reference of each variant
StrategyUrls ==
    {<<"git+https", ":", "/", "/", "host", "/", "chadac", "/", "nixspace",
       "?", "ref", "=", "v">>,
     <<"github", ":", "chadac", "/", "nixspace">>,
     <<"mc+https", ":", "/", "/", "host", "/", "chadac", "/", "nixspace">>,
     <<"path", ":", ".", "/", "test">>,
     <<"flake", ":", "nixpkgs">>}

StrategyInit ==
    /\ LockIdle
    /\ MergeIdle
    /\ ws = [config |-> NewConfig, lock |-> <<>>, local |-> [projects |-> <<>>]]
    /\ dirs = {}
    /\ wop = [kind |-> "init", name |-> <<>>, st |-> "ok"]
    /\ \E n \in 0..MaxListing : \E refs \in [1..n -> ListedRefs] :
          \E ls_ok \in BOOLEAN, meta_ok \in BOOLEAN :
              world = [listing |-> [i \in 1..n |-> GitRef(<<RevNames[i]>>, refs[i])],
                       ls_ok |-> ls_ok, meta_ok |-> meta_ok]
    /\ calls = <<>>
    /\ given \in StrategyUrls
    /\ policy \in Policies
    /\ rout = [kind |-> "init"]

DoUpdate ==
    /\ rout.kind = "init"
    /\ rout' = [kind |-> "update", ref |-> parse(given).ref,
                res |-> update(policy, parse(given).ref, world)]
    /\ calls' = update(policy, parse(given).ref, world).calls
    /\ UNCHANGED <<given, policy, world, lockVars, mergeVars, wsVars>>

StrategyNext == DoUpdate

SpecStrategy == StrategyInit /\ [][StrategyNext]_vars

\* --------------------------------------------------------------- update runs
STAGE == <<"stage">>
UrlA == <<"git+https", ":", "/", "/", "host", "/", "chadac", "/", "nixspace">>
UrlB == <<"github", ":", "chadac", "/", "dotfiles">>

\* the per-environment overrides a project may carry
Overrides ==
    {None, Some(DEV :> Branch(MAIN)), Some(PROD :> LatestTag(None)),
     Some((DEV :> FREEZE) @@ (PROD :> LATEST))}

\* a workspace as loaded: environments dev (latest) and prod (freeze), a lockfile
\* for each, two projects; the default environment may be one that is not configured
UpdInit ==
    /\ LockIdle
    /\ MergeIdle
    /\ \E sa \in Overrides, sb \in Overrides, default_env \in {DEV, STAGE},
          previous \in {EnvLock({}), EnvLock({LA})} :
          ws = [config |->
                   [environments |-> <<[name |-> DEV, strategy |-> LATEST],
                                       [name |-> PROD, strategy |-> FREEZE]>>,
                    projects |-> <<[ProjectConfig(LA, UrlA, None) EXCEPT !.strategy = sa],
                                   [ProjectConfig(LB, UrlB, None) EXCEPT !.strategy = sb]>>,
                    default_env |-> default_env],
                lock |-> (DEV :> previous) @@ (PROD :> previous),
                local |-> [projects |-> <<>>]]
    /\ dirs = {}
    /\ wop = [kind |-> "init", name |-> <<>>, st |-> "ok"]
    /\ \E n \in 0..MaxListing :
          \E refs \in [1..n -> {HEAD, MAIN, <<"refs", "/", "tags", "/", "v", "1">>}] :
          \E ls_ok \in BOOLEAN, meta_ok \in BOOLEAN :
              world = [listing |-> [i \in 1..n |-> GitRef(<<RevNames[i]>>, refs[i])],
                       ls_ok |-> ls_ok, meta_ok |-> meta_ok]
    /\ calls = <<>>
    /\ RefIdle

\* wop.name holds the env argument of the call
DoUpdateAllProjects ==
    \E env \in {None, Some(DEV), Some(PROD), Some(STAGE)} :
      \E r \in {UpdateAllProjects(ws, env, world)} :
            /\ wop.kind = "init"
            /\ ws' = r.ws
            /\ wop' = [kind |-> "update_all_projects", name |-> env, st |-> r.st]
            /\ calls' = r.calls
            /\ UNCHANGED <<dirs, world, lockVars, mergeVars, refVars>>

UpdNext == DoUpdateAllProjects

SpecUpd == UpdInit /\ [][UpdNext]_vars

\* ------------------------------------------------------------- process exit
\* the argument of std::process::exit in main's error arm
EXIT_ERROR == 256
\* the status of a process whose main thread panicked
EXIT_PANIC == 101

\* the status the parent observes: the low 8 bits of the value passed to exit
ObservedStatus(code) == code % 256

\* Workspace::discover then the command, then Workspace::save: the outcome of
\* the command given the outcome r of its workspace operation
RunCommand(w, d, found, r, saved) ==
    IF ~found THEN [st |-> "err", ws |-> w, dirs |-> d]
    ELSE IF r.st # "ok" THEN [st |-> r.st, ws |-> w, dirs |-> r.dirs]
    ELSE IF ~saved THEN [st |-> "err", ws |-> w, dirs |-> r.dirs]
    ELSE r

\* Edit::run
EditRun(w, d, name, cloned, found, saved) ==
    RunCommand(w, d, found, Edit(w, d, name, cloned), saved)

\* Unedit::run
UneditRun(w, d, name, rm, found, saved) ==
    RunCommand(w, d, found, Unedit(w, d, name, rm), saved)

\* main: the value the process exits with after exec returned st
Main(st) ==
    IF st = "ok" THEN 0
    ELSE IF st = "panic" THEN EXIT_PANIC
    ELSE EXIT_ERROR

\* one run of the program with the edit command; wop.exit is the status the
\* parent process observes
DoMainEdit ==
    \E name \in {LA, LB}, cloned \in BOOLEAN, found \in BOOLEAN, saved \in BOOLEAN :
        \E r \in {EditRun(ws, dirs, name, cloned, found, saved)} :
            /\ ws' = r.ws
            /\ dirs' = r.dirs
            /\ wop' = [kind |-> "main_edit", name |-> name, st |-> r.st,
                       exit |-> ObservedStatus(Main(r.st))]
            /\ UNCHANGED <<lockVars, mergeVars, extVars, refVars>>

DoMainUnedit ==
    \E name \in {LA, LB}, rm \in BOOLEAN, found \in BOOLEAN, saved \in BOOLEAN :
        \E r \in {UneditRun(ws, dirs, name, rm, found, saved)} :
            /\ ws' = r.ws
            /\ dirs' = r.dirs
            /\ wop' = [kind |-> "main_unedit", name |-> name, st |-> r.st,
                       exit |-> ObservedStatus(Main(r.st))]
            /\ UNCHANGED <<lockVars, mergeVars, extVars, refVars>>

MainNext == DoMainEdit \/ DoMainUnedit

SpecMain == WsInit /\ [][MainNext]_vars

\* ------------------------------------------------------ subprocess facade
\* One invocation made through CliCommand is recorded in calls as
\* [via, args, spawned, code, st]: spawned tells whether the child could be
\* started, code is the 8-bit exit status of the child, st is what the facade
\* returned to its caller ("ok" or "err").
MaxCalls == 2
ExitCodes == {0, 1, 128, 255}

\* ExitStatus::success
Success(code) == code = 0

\* CliCommand::exec
CliExec(args, spawned, code) ==
    [via |-> "exec", args |-> args, spawned |-> spawned, code |-> code,
     st |-> IF spawned /\ Success(code) THEN "ok" ELSE "err"]

\* CliCommand::interactive: the child is spawned and its output copied; its
\* exit status is never read
CliInteractive(args, spawned, code) ==
    [via |-> "interactive", args |-> args, spawned |-> spawned, code |-> code,
     st |-> IF spawned THEN "ok" ELSE "err"]

\* CliCommand::run: the exit status is handed to the caller
CliRun(args, spawned, code) ==
    [via |-> "run", args |-> args, spawned |-> spawned, code |-> code,
     st |-> IF spawned THEN "ok" ELSE "err"]

DIFF == <<"diff", "--exit-code">>
DIFF_STAGED == <<"diff", "--staged", "--exit-code">>

\* Git::changed on one file: [st, val, calls]; context is the outcome of
\* get_git_context, s1 and s2 are [spawned, code] of the two children
GitChangedRuns(context, s1, s2) ==
    LET r1 == CliRun(DIFF, s1.spawned, s1.code)
        r2 == CliRun(DIFF_STAGED, s2.spawned, s2.code)
    IN  IF ~context THEN [st |-> "err", val |-> FALSE, calls |-> <<>>]
        ELSE IF r1.st # "ok" THEN [st |-> "err", val |-> FALSE, calls |-> <<r1>>]
        ELSE IF ~Success(r1.code) THEN [st |-> "ok", val |-> TRUE, calls |-> <<r1>>]
        ELSE IF r2.st # "ok" THEN [st |-> "err", val |-> FALSE, calls |-> <<r1, r2>>]
        ELSE [st |-> "ok", val |-> ~Success(r2.code), calls |-> <<r1, r2>>]

\* the argument lists the wrappers of Nix and Git hand to exec
ExecArgs == {<<"flake", "metadata">>, <<"flake", "clone">>, <<"push", "origin">>,
             PULL_REBASE, <<"reset">>, <<"commit", "-m">>}
\* the argument lists NixArgs::run hands to interactive
InteractiveArgs == {<<"build", "--impure">>, <<"run", "--impure">>}

CliInit == LockIdle /\ MergeIdle /\ WsIdle

DoExec ==
    \E args \in ExecArgs, spawned \in BOOLEAN, code \in ExitCodes :
        /\ Len(calls) < MaxCalls
        /\ calls' = Append(calls, CliExec(args, spawned, code))
        /\ UNCHANGED <<world, lockVars, mergeVars, wsVars, refVars>>

DoInteractive ==
    \E args \in InteractiveArgs, spawned \in BOOLEAN, code \in ExitCodes :
        /\ Len(calls) < MaxCalls
        /\ calls' = Append(calls, CliInteractive(args, spawned, code))
        /\ UNCHANGED <<world, lockVars, mergeVars, wsVars, refVars>>

DoGitChanged ==
    \E context \in BOOLEAN, sp1 \in BOOLEAN, c1 \in ExitCodes,
       sp2 \in BOOLEAN, c2 \in ExitCodes :
        \E r \in {GitChangedRuns(context, [spawned |-> sp1, code |-> c1],
                                  [spawned |-> sp2, code |-> c2])} :
            /\ Len(calls) + Len(r.calls) <= MaxCalls
            /\ r.calls # <<>>
            /\ calls' = calls \o r.calls
            /\ UNCHANGED <<world, lockVars, mergeVars, wsVars, refVars>>

CliNext == DoExec \/ DoInteractive \/ DoGitChanged

SpecCli == CliInit /\ [][CliNext]_vars

\* --------------------------------------------------------- commit / publish
LOCKFILE_DIR == <<".nixspace">>
LOCAL_PATH == LOCKFILE_DIR \o <<"/", "local.json">>

\* Workspace::lock_path: root/.nixspace/<env>.lock
LockPath(env) == LOCKFILE_DIR \o <<"/">> \o EnvLockFile(env)

\* Config::environments: the names, in config order
Environments(config) == [i \in DOMAIN config.environments |-> config.environments[i].name]

RESET == <<"reset">>
PUSH == <<"push", "origin">>
GitAddCall(file_path) == <<"add", file_path>>
GitCommitCall(message) == <<"commit", message>>

\* one exec of git after the calls in issued: the child whose number is
\* wld.fail exits non-zero
GitExec(call, issued, wld) ==
    [st |-> IF Len(issued) + 1 = wld.fail THEN "err" ELSE "ok",
     calls |-> Append(issued, call)]

\* Git::add: get_git_context fails for the paths in wld.missing, before any child runs
GitAdd(file_path, issued, wld) ==
    IF file_path \in wld.missing THEN [st |-> "err", calls |-> issued]
    ELSE GitExec(GitAddCall(file_path), issued, wld)

\* the loop of commit over config.environments()
RECURSIVE AddLocks(_, _, _)
AddLocks(envs, issued, wld) ==
    IF envs = <<>> THEN [st |-> "ok", calls |-> issued]
    ELSE IF GitAdd(LockPath(Head(envs)), issued, wld).st # "ok"
         THEN GitAdd(LockPath(Head(envs)), issued, wld)
         ELSE AddLocks(Tail(envs), GitAdd(LockPath(Head(envs)), issued, wld).calls, wld)

\* what follows a successful reset in commit, given the outcome a of add(config_path)
CommitAfterAdd(w, commit_message, a, wld) ==
    IF a.st # "ok" THEN a
    ELSE IF AddLocks(Environments(w.config), a.calls, wld).st # "ok"
         THEN AddLocks(Environments(w.config), a.calls, wld)
         ELSE GitExec(GitCommitCall(commit_message),
                      AddLocks(Environments(w.config), a.calls, wld).calls, wld)

\* (variant: a failing call does not end commit)
CommitKeepsGoing(w, commit_message, wld) ==
    CommitAfterAdd(w, commit_message,
                   [st |-> "ok", calls |-> GitAdd(CONFIG_PATH, <<RESET>>, wld).calls], wld)

\* Workspace::commit: [st, calls]
Commit(w, commit_message, wld) ==
    IF GitExec(RESET, <<>>, wld).st # "ok" THEN GitExec(RESET, <<>>, wld)
    ELSE CommitAfterAdd(w, commit_message, GitAdd(CONFIG_PATH, <<RESET>>, wld), wld)

\* Workspace::publish after the calls in issued
Publish(issued, wld) == GitExec(PUSH, issued, wld)

\* Publish::run given the outcome c of commit (found: Workspace::discover succeeded)
PublishAfterCommit(c, wld) ==
    IF c.st # "ok" THEN c ELSE Publish(c.calls, wld)

PublishRun(w, message, found, wld) ==
    IF ~found THEN [st |-> "err", calls |-> <<>>]
    ELSE PublishAfterCommit(Commit(w, message, wld), wld)

Messages == {<<"m1">>, <<"m2">>}
EnvOrders ==
    {<<DEV>>, <<DEV, PROD>>, <<PROD, DEV>>, <<DEV, PROD, <<"stage">>>>}

PublishInit ==
    /\ LockIdle
    /\ MergeIdle
    /\ \E order \in EnvOrders :
          ws = [config |-> [NewConfig EXCEPT !.environments =
                               [i \in DOMAIN order |-> [name |-> order[i], strategy |-> "latest"]]],
                lock |-> [e \in Range(order) |-> EnvLock({})],
                local |-> [projects |-> <<>>]]
    /\ dirs = {}
    /\ wop = [kind |-> "init", name |-> <<>>, st |-> "ok"]
    /\ \E fail \in 0..7, missing \in {{}, {CONFIG_PATH}, {LockPath(PROD)}} :
          world = [fail |-> fail, missing |-> missing]
    /\ calls = <<>>
    /\ RefIdle

DoCommit ==
    \E message \in Messages :
        \E r \in {Commit(ws, message, world)} :
            /\ wop.kind = "init"
            /\ wop' = [kind |-> "commit", name |-> message, st |-> r.st]
            /\ calls' = r.calls
            /\ UNCHANGED <<ws, dirs, world, lockVars, mergeVars, refVars>>

DoPublish ==
    \E message \in Messages, found \in BOOLEAN :
        \E r \in {PublishRun(ws, message, found, world)} :
            /\ wop.kind = "init"
            /\ wop' = [kind |-> "publish", name |-> message, st |-> r.st]
            /\ calls' = r.calls
            /\ UNCHANGED <<ws, dirs, world, lockVars, mergeVars, refVars>>

PublishNext == DoCommit \/ DoPublish

SpecPublish == PublishInit /\ [][PublishNext]_vars

\* ------------------------------------------------------------------ claims
\* the nodes of L reachable from its root along resolved InputRefs, never
\* entering a node of the set avoid (graph reachability, stated on the data)
RECURSIVE ReachAvoiding(_, _, _)
ReachAvoiding(L, avoid, seen) ==
    LET next == {n \in Keys(L) \ (seen \cup avoid) :
                    \E k \in seen : /\ k \in Keys(L)
                                    /\ L.nodes[k].inputs # None
                                    /\ \E l \in DOMAIN L.nodes[k].inputs[1] :
                                           ResolveInput(L, L.nodes[k].inputs[1][l])
                                               = Resolved(n)}
    IN  IF next = {} THEN seen ELSE ReachAvoiding(L, avoid, seen \cup next)

\* C1: for a well-formed lockfile (root a key of nodes, every InputRef resolving
\* to a key; unreachable nodes allowed) trim() succeeds, afterwards closure()
\* equals the key set of nodes, and a second trim() changes nothing.
C1_TrimClosesLockfile ==
    (op.kind = "trim" /\ WellFormed(pre)) =>
        /\ res = "ok"
        /\ Closure(lock) = [st |-> "ok", set |-> Keys(lock)]
        /\ Trim(lock) = Returned("ok", lock)

\* C2: starting from a well-formed lockfile, after any sequence of add, rm,
\* rename_input and trim calls that all returned successfully, root is a key of
\* nodes and every InputRef of every node resolves to a key of nodes.
C2_OpsKeepWellFormed == clean => WellFormed(lock)

\* C7: rm(name) with name other than root removes nodes[name] and the entry of
\* root.inputs keyed by name and leaves every other node and input entry as it
\* was; when name is not a key of nodes the lockfile is left unchanged.
C7_RmFrame ==
    (op.kind = "rm" /\ op.a # pre.root /\ pre.root \in Keys(pre)) =>
        IF op.a \in Keys(pre)
        THEN /\ Keys(lock) = Keys(pre) \ {op.a}
             /\ \A k \in Keys(lock) \ {pre.root} : lock.nodes[k] = pre.nodes[k]
             /\ lock.nodes[pre.root] =
                    IF pre.nodes[pre.root].inputs = None THEN pre.nodes[pre.root]
                    ELSE [pre.nodes[pre.root] EXCEPT !.inputs =
                             Some(MapRemove(pre.nodes[pre.root].inputs[1], op.a))]
        ELSE lock = pre

\* C8: on a well-formed lockfile, rm(n) followed by trim() succeeds and removes n
\* together with every node that was reachable only through n, keeping root (for
\* the chain root -> a -> b -> c, rm("b") then trim() removes b and c).
C8_RmThenTrim ==
    [][(/\ op.kind = "rm" /\ res = "ok" /\ steps = 1
        /\ WellFormed(pre)
        /\ op.a \in Keys(pre) \ {pre.root}
        /\ op'.kind = "trim")
       => (/\ res' = "ok"
           /\ pre.root \in Keys(lock')
           /\ Keys(lock') = ReachAvoiding(pre, {op.a}, {pre.root}))]_vars

\* the first element of a Path, the name of a Direct
RefHeads(L) ==
    {IF r.tag = "Direct" THEN r.n ELSE Head(r.p) :
        r \in {ref \in UNION {{L.nodes[k].inputs[1][l] : l \in DOMAIN L.nodes[k].inputs[1]} :
                                 k \in {j \in Keys(L) : L.nodes[j].inputs # None}} :
                  ref.tag = "Direct" \/ ref.p # <<>>}}

\* C9: when old # new and new is neither a key of nodes nor the head of any
\* InputRef, rename_input(old, new) followed by rename_input(new, old) gives back
\* the lockfile: same keys, same node contents, same input references.
C9_RenameRoundTrip ==
    (/\ op.kind = "rename_input"
     /\ op.a # op.b
     /\ op.b \notin Keys(pre) \cup RefHeads(pre))
        => RenameInput(lock, op.b, op.a) = pre

\* a rename of a node that is referenced, so both renames rewrite references
C9_Witness ==
    /\ op.kind = "rename_input"
    /\ op.a # op.b
    /\ op.b \notin Keys(pre) \cup RefHeads(pre)
    /\ op.a \in Keys(pre) \cap RefHeads(pre)
    /\ lock # pre
    /\ RenameInput(lock, op.b, op.a) = pre

\* the lockfiles handed to merge, and the root inputs of one of them
Lockfiles == [n \in DOMAIN metadata |-> metadata[n].locks]
RootInputs(L) ==
    IF ROOT \in Keys(L) /\ L.nodes[ROOT].inputs # None THEN L.nodes[ROOT].inputs[1] ELSE <<>>

\* a lockfile as the builder writes it: well formed, every node reachable
Tidy(L) == WellFormed(L) /\ Closure(L) = [st |-> "ok", set |-> Keys(L)]

\* C3: when project A's root has an input keyed by another project label B, that
\* input of A's renamed root resolves to node B of the merged lockfile, and the
\* merged node B is B's own former root (L_B's root after L_B's renames),
\* whatever the key order of A and B (stated for tidy input lockfiles).
C3_SharedInputIsOwnRoot ==
    (mop = "merge" /\ out.st = "ok" /\ \A p \in DOMAIN metadata : Tidy(Lockfiles[p])) =>
        \A A \in DOMAIN metadata, B \in DOMAIN metadata :
            (A # B /\ B \in DOMAIN RootInputs(Lockfiles[A])) =>
                /\ B \in Keys(out.lock)
                /\ ResolveInput(out.lock,
                       RenameProject(Lockfiles, A).lock.nodes[A].inputs[1][B]) = Resolved(B)
                /\ out.lock.nodes[B] = RenameProject(Lockfiles, B).lock.nodes[B]

\* C4: merge writes two nodes under one name (applying the renames inside one
\* lockfile, or unioning the renamed lockfiles) only when the name is a project
\* label, and then the two nodes have equal contents (stated for tidy input
\* lockfiles).
C4_CollisionsOnlyEqualLabels ==
    (mop = "merge" /\ \A p \in DOMAIN metadata : Tidy(Lockfiles[p])) =>
        \A h \in out.hits : h.name \in DOMAIN metadata /\ h.old = h.new

C6_MergedRoot ==
    (mop = "merge" /\ out.st = "ok") =>
        /\ out.lock.root = ROOT
        /\ ROOT \in Keys(out.lock)
        /\ out.lock.nodes[ROOT].locked = None
        /\ out.lock.nodes[ROOT].original = None
        /\ out.lock.nodes[ROOT].inputs = Some([p \in DOMAIN metadata |-> Direct(p)])
        /\ \A p \in DOMAIN metadata : out.lock.nodes[ROOT] # Lockfiles[p].nodes[ROOT]

\* a merge of two projects that keeps private nodes beside the two label nodes
C6_Witness ==
    /\ mop = "merge" /\ out.st = "ok"
    /\ DOMAIN metadata = {LA, LB}
    /\ \E p \in DOMAIN metadata : RootInputs(Lockfiles[p]) # <<>>
    /\ Cardinality(Keys(out.lock)) >= 4

\* C10: after any sequence of register and deregister calls, config.projects
\* holds no two entries with the same name.
C10_ProjectNamesUnique ==
    \A i \in 1..Len(ws.config.projects), j \in 1..Len(ws.config.projects) :
        i # j => ws.config.projects[i].name # ws.config.projects[j].name

\* the first entry of config.projects named name has a configured path
HasPath(w, name) ==
    /\ Position(w.config.projects, name) # 0
    /\ w.config.projects[Position(w.config.projects, name)].path # None

\* C11: for a registered project with a configured path: register leaves it
\* non-editable; edit from non-editable makes it editable (unless the clone of a
\* missing directory fails); unedit makes it non-editable; a successful
\* deregister removes its overlay entry; edit of an editable project returns an
\* error and leaves the overlay unchanged.
C11_EditableStateMachine ==
    [][/\ wop'.kind = "register" => ~IsEditable(ws'.local, wop'.name)
       /\ (wop'.kind = "edit" /\ HasPath(ws, wop'.name)
              /\ ~IsEditable(ws.local, wop'.name) /\ wop'.st # "clone_failed")
            => (wop'.st = "ok" /\ IsEditable(ws'.local, wop'.name))
       /\ (wop'.kind = "unedit" /\ HasPath(ws, wop'.name))
            => ~IsEditable(ws'.local, wop'.name)
       /\ (wop'.kind = "deregister" /\ wop'.st = "ok")
            => wop'.name \notin DOMAIN ws'.local.projects
       /\ (wop'.kind = "edit" /\ HasPath(ws, wop'.name) /\ IsEditable(ws.local, wop'.name))
            => (wop'.st # "ok" /\ ws'.local = ws.local)]_vars

\* an edit of an editable project was refused and the project is still editable
C11_Witness ==
    /\ wop.kind = "edit" /\ wop.st = "err"
    /\ HasPath(ws, wop.name)
    /\ IsEditable(ws.local, wop.name)

\* C12: after a successful deregister(name, delete), config.projects has no entry
\* named name, the overlay has no entry for name, and in every per-environment
\* lockfile neither nodes nor root.inputs has the key name.
C12_DeregisterRemovesAll ==
    (wop.kind = "deregister" /\ wop.st = "ok") =>
        /\ Position(ws.config.projects, wop.name) = 0
        /\ wop.name \notin DOMAIN ws.local.projects
        /\ \A e \in DOMAIN ws.lock :
              /\ wop.name \notin Keys(ws.lock[e])
              /\ wop.name \notin DOMAIN RootInputs(ws.lock[e])

\* C13: sync issues pull_rebase only where changed() is false; where changed() is
\* true, or probing fails, sync returns an error and issues no pull_rebase.
C13_SyncPullsOnlyUnchanged ==
    wop.kind = "sync" =>
        LET c == Changed(ws, world.probe)
            pulled == \E i \in DOMAIN calls : calls[i] = PULL_REBASE
        IN  /\ pulled => (c.st = "ok" /\ ~c.val)
            /\ pulled => \A f \in DOMAIN world.probe : world.probe[f] = "same"
            /\ (c.st # "ok" \/ c.val) => (wop.st # "ok" /\ ~pulled)

\* a sync over a checkout with a staged change and no failing probe was refused
C13_Witness ==
    /\ wop.kind = "sync" /\ wop.st = "err"
    /\ \E f \in DOMAIN world.probe : world.probe[f] = "staged"
    /\ \A f \in DOMAIN world.probe : world.probe[f] # "fail"
    /\ world.pull
    /\ calls # <<>>

\* C18: for every reference string of the grammar (every variant, also with more
\* than one ':' and several query parameters) parse succeeds and flake_url of the
\* result is the string.
C18_PrintParseRoundTrip ==
    rout.kind = "parse" =>
        /\ rout.res.st = "ok"
        /\ flake_url(rout.res.ref) = given

CallsTo(tool) == {i \in DOMAIN calls : calls[i][1] = tool}
Listed == world.ls_ok /\ world.listing # <<>>

\* C15: with policy Freeze, or a reference without git remote URL, update issues
\* no ls_remote call, substitutes no rev, and invokes flake_metadata exactly once,
\* on the original reference's URL, returning that metadata.
C15_FreezeOrNoRemote ==
    (rout.kind = "update" /\ (policy = FREEZE \/ git_remote_url(rout.ref) = None)) =>
        /\ CallsTo("ls-remote") = {}
        /\ rout.res.rev = None
        /\ calls = <<(<<"flake_metadata", flake_url(rout.ref), None>>)>>
        /\ rout.res.st = (IF world.meta_ok THEN "ok" ELSE "err")
        /\ rout.res.metadata = MetadataOf(NewRef(rout.ref))

\* a frozen reference with a remote, over a listing with HEAD, fetched its metadata
C15_Witness ==
    /\ rout.kind = "update" /\ policy = FREEZE
    /\ git_remote_url(rout.ref) # None
    /\ \E i \in DOMAIN world.listing : world.listing[i].git_ref = HEAD
    /\ world.ls_ok
    /\ rout.res.st = "ok"

\* C16: for Latest the rev is that of the listing entry whose ref equals HEAD,
\* for Branch(b) that of the entry whose ref equals b; when there is no such
\* entry the update returns an error and flake_metadata is not invoked.
C16_LatestAndBranch ==
    (/\ rout.kind = "update" /\ policy.tag \in {"Latest", "Branch"}
     /\ git_remote_url(rout.ref) # None /\ Listed) =>
        LET name == IF policy.tag = "Latest" THEN HEAD ELSE policy.branch
            entries == {i \in DOMAIN world.listing : world.listing[i].git_ref = name}
        IN  IF entries = {}
            THEN rout.res.st = "err" /\ CallsTo("flake_metadata") = {}
            ELSE /\ \E i \in entries : rout.res.rev = Some(world.listing[i].rev)
                 /\ rout.res.rev = Some(world.listing[Min(entries)].rev)
                 /\ CallsTo("flake_metadata") # {}

\* an update to a branch the remote does not list was refused
C16_Witness ==
    /\ rout.kind = "update" /\ policy.tag = "Branch"
    /\ git_remote_url(rout.ref) # None /\ Listed
    /\ \A i \in DOMAIN world.listing : world.listing[i].git_ref # policy.branch
    /\ \E i \in DOMAIN world.listing : world.listing[i].git_ref = HEAD
    /\ rout.res.st = "err"

\* C17: for LatestTag(g) the rev is that of the last entry, in listing order,
\* whose ref matches refs/tags/<g>, absent when none matches; LatestTag(None)
\* answers as LatestTag(Some("*")) on every listing.
C17_LatestTag ==
    (rout.kind = "update" /\ git_remote_url(rout.ref) # None /\ Listed) =>
        /\ policy.tag = "LatestTag" =>
              LET g == IF policy.pattern = None THEN <<"*">> ELSE policy.pattern[1]
                  entries == {i \in DOMAIN world.listing :
                                 glob_match(<<"refs", "/", "tags", "/">> \o g,
                                            world.listing[i].git_ref)}
              IN  rout.res.rev =
                      IF entries = {} THEN None
                      ELSE Some(world.listing[Max(entries)].rev)
        /\ get_git_rev(LatestTag(None), git_remote_url(rout.ref)[1], world)
              = get_git_rev(LatestTag(Some(<<"*">>)), git_remote_url(rout.ref)[1], world)

\* two tags match the pattern and the later one was taken
C17_Witness ==
    /\ rout.kind = "update" /\ policy = LatestTag(Some(<<"v", "*">>))
    /\ git_remote_url(rout.ref) # None /\ Listed
    /\ Cardinality(Filtered(world.listing, TagGlob(policy.pattern))) >= 2
    /\ rout.res.rev = Some(<<"r2">>)

\* the environment an update_all_projects(env) call is about
Resolved14 == IF wop.name = None THEN ws.config.default_env ELSE wop.name[1]
EnvNames == {ws.config.environments[i].name : i \in DOMAIN ws.config.environments}

\* the strategy the claim expects for project i in environment e
Expected14(i, e) ==
    LET p == ws.config.projects[i]
    IN  IF p.strategy # None /\ e \in DOMAIN p.strategy[1]
        THEN p.strategy[1][e]
        ELSE ws.config.environments[EnvIndex(ws.config, e)].strategy

\* C14: update_all_projects(env) is about env when given and config.default_env
\* otherwise, fails when that environment is not configured, and updates every
\* project with its override for that environment when it has one and with the
\* environment's strategy otherwise.
C14_UpdateAllProjects ==
    wop.kind = "update_all_projects" =>
        /\ Resolved14 \notin EnvNames => (wop.st = "err" /\ calls = <<>>)
        /\ wop.st = "ok" =>
              /\ Resolved14 \in EnvNames
              /\ calls = Concat([i \in DOMAIN ws.config.projects |->
                            update(Expected14(i, Resolved14),
                                   parse(ws.config.projects[i].url).ref, world).calls])
              /\ \A i \in DOMAIN ws.config.projects :
                    ws.lock[Resolved14].nodes[ws.config.projects[i].name].locked =
                        Some(update(Expected14(i, Resolved14),
                                    parse(ws.config.projects[i].url).ref,
                                    world).metadata.locked)

\* an update of the default environment went through with one project on its
\* override and the other on the environment's strategy
C14_Witness ==
    /\ wop.kind = "update_all_projects" /\ wop.st = "ok" /\ wop.name = None
    /\ ws.config.projects[1].strategy # None
    /\ Resolved14 \in DOMAIN ws.config.projects[1].strategy[1]
    /\ Expected14(1, Resolved14) # Expected14(2, Resolved14)
    /\ ws.config.projects[2].strategy = None
    /\ Len(calls) >= 3

\* C20: whenever a command returns an error the exit status the parent process
\* observes is non-zero, and it is 0 only when the command succeeded.
C20_ExitStatus ==
    wop.kind \in {"main_edit", "main_unedit"} =>
        /\ wop.st # "ok" => wop.exit # 0
        /\ wop.exit = 0 => wop.st = "ok"

\* C21: every invocation made through exec or interactive whose child exits
\* non-zero yields an error to the caller; a non-zero exit becomes a normal
\* result only for the two diff --exit-code probes of Git::changed.
C21_NonZeroExitIsError ==
    \A i \in DOMAIN calls :
        /\ (calls[i].via \in {"exec", "interactive"} /\ calls[i].spawned
                /\ calls[i].code # 0) => calls[i].st = "err"
        /\ (calls[i].spawned /\ calls[i].code # 0 /\ calls[i].st = "ok")
              => calls[i].args \in {DIFF, DIFF_STAGED}

\* the InputRefs held by the nodes of L
RefsOf(L) ==
    UNION {{L.nodes[k].inputs[1][l] : l \in DOMAIN L.nodes[k].inputs[1]} :
              k \in {j \in Keys(L) : L.nodes[j].inputs # None}}

\* C22: resolve_input on a Path whose head node, or an intermediate node or
\* input label, is missing from the lockfile gives an error value to the caller
\* (closure and trim then return that error) and never aborts the program.
C22_MissingNodeIsError ==
    /\ \A ref \in RefsOf(lock) : ResolveInput(lock, ref).st # "panic"
    /\ op.kind = "trim" => res # "panic"

\* C23: resolve_input and closure terminate on every finite lockfile, also when
\* Direct edges form cycles and when a Path reference resolves through an input
\* that is, directly or transitively, the same Path reference.
C23_ResolveTerminates ==
    /\ \A ref \in RefsOf(lock) : ResolveInput(lock, ref).st # "overflow"
    /\ Closure(lock).st # "overflow"

\* C24: trim() removes exactly the keys of the nodes that are not in closure()
\* as computed before any removal, and leaves every node of that closure, the
\* root node with every entry of root.inputs included, unchanged.
C24_TrimFrame ==
    (op.kind = "trim" /\ res = "ok") =>
        /\ Closure(pre).st = "ok"
        /\ Keys(lock) = Keys(pre) \cap Closure(pre).set
        /\ \A k \in Keys(lock) : lock.nodes[k] = pre.nodes[k]

\* the calls commit(msg) makes when none fails, in order
CommitPlan(w, msg) ==
    <<RESET, GitAddCall(CONFIG_PATH)>>
        \o [i \in DOMAIN w.config.environments |->
               GitAddCall(LockPath(w.config.environments[i].name))]
        \o <<GitCommitCall(msg)>>

\* C25: commit(msg) issues reset(root), add(config_path), add(lock_path(env))
\* for each environment in config order, commit(msg, root), in this order, and
\* issues no call after one of them failed; the publish command pushes only
\* after commit has returned successfully.
C25_CommitOrder ==
    wop.kind \in {"commit", "publish"} =>
        LET plan == CommitPlan(ws, wop.name)
            made == IF PUSH \in Range(calls) THEN SubSeq(calls, 1, Len(calls) - 1) ELSE calls
        IN  /\ Len(made) <= Len(plan)
            /\ made = SubSeq(plan, 1, Len(made))
            /\ world.fail \in 1..Len(calls) => (Len(calls) = world.fail /\ wop.st = "err")
            /\ (wop.kind = "commit" /\ wop.st = "ok") => calls = plan
            /\ wop.kind = "commit" => PUSH \notin Range(calls)
            /\ PUSH \in Range(calls) =>
                  /\ calls = Append(plan, PUSH)
                  /\ world.fail \notin 1..Len(plan)
                  /\ world.missing \cap {plan[i][2] : i \in 2..(Len(plan) - 1)} = {}

\* a publish over two environments whose commit went through and which pushed
C25_Witness ==
    /\ wop.kind = "publish" /\ wop.st = "ok"
    /\ Len(ws.config.environments) >= 2
    /\ calls = Append(CommitPlan(ws, wop.name), PUSH)

\* the files commit() staged
Staged == {calls[i][2] : i \in {j \in DOMAIN calls : calls[j][1] = "add"}}

\* C30: for every configured environment e, files() contains lock_path(e), the
\* path where save() writes and commit() stages the lockfile of e, so every
\* file staged by commit() is among the files probed by changed() and
\* tracks_latest(); the local overlay path is never in files().
C30_FilesCoverLockPaths ==
    /\ \A i \in DOMAIN ws.config.environments :
          LockPath(ws.config.environments[i].name) \in Range(Files(ws))
    /\ wop.kind \in {"commit", "publish"} => Staged \subseteq Range(Files(ws))
    /\ LOCAL_PATH \notin Range(Files(ws))

\* C26: for every input in which each project lockfile is well formed, the
\* lockfile merge returns is well formed: every InputRef of every node resolves
\* to a key of nodes, and closure() of the result equals its key set.
C26_MergeWellFormed ==
    (mop = "merge" /\ out.st = "ok" /\ \A p \in DOMAIN metadata : WellFormed(Lockfiles[p])) =>
        /\ WellFormed(out.lock)
        /\ Closure(out.lock) = [st |-> "ok", set |-> Keys(out.lock)]

C28_OverlayKeysRegistered ==
    DOMAIN ws.local.projects \subseteq
        {ws.config.projects[i].name : i \in DOMAIN ws.config.projects}

\* C29: rename_input(n, n) for a name n that is a key of nodes leaves the
\* lockfile unchanged; more generally rename_input(old, new) never changes the
\* number of nodes when new is not already a key of nodes.
C29_RenameKeepsNodes ==
    op.kind = "rename_input" =>
        /\ (op.a = op.b /\ op.a \in Keys(pre)) => lock = pre
        /\ op.b \notin Keys(pre) => Cardinality(Keys(lock)) = Cardinality(Keys(pre))

====
